---------------------------- MODULE Spec2Model ----------------------------
(***************************************************************************)
(* A model of the Mostro trade coordinator: the event loop of app.rs (run, *)
(* check_trade_index, handle_message_action) and the handlers release,     *)
(* admin_settle, admin_cancel and admin_add_solver, over one order, its    *)
(* dispute row, its hold invoice and the user table.                       *)
(*                                                                         *)
(* A notification is first received (Recv: notifications.recv() yields an  *)
(* event) and then processed by one iteration of the loop body (Process),  *)
(* which runs the whole pipeline and the whole handler.  Payout tasks      *)
(* spawned by do_payment finish in PaymentSucceeded / PaymentFailed.       *)
(***************************************************************************)
EXTENDS Integers, Sequences, FiniteSets, TLC

VARIABLES
    now,        \* the coordinator's clock, seconds (chrono::Utc::now())
    running,    \* "running" | "returned" (run returned Err) | "panicked"
    inbox,      \* the notification being handled: <<>> or <<event>>
    users,      \* users table: identity key -> <<>> or <<row>>
    order,      \* the order row in the store
    dispute,    \* the dispute row of the order: <<>> or <<row>>
    hold,       \* the seller's hold invoice at the Lightning node
    tasks,      \* payout tasks spawned by do_payment: order snapshots
    accepted,   \* history: per identity, the index of its last dispatched
                \* trade message
    out         \* what the last loop iteration / task step did

vars == <<now, running, inbox, users, order, dispute, hold, tasks, accepted,
          out>>

-----------------------------------------------------------------------------
(* Bounds of the model *)

\* the clock moves at most this many seconds
MaxTicks == 1
\* trade indices carried by messages are 1..MaxIndex
MaxIndex == 2
\* settings: ln.payment_attempts (a configuration value)
MaxAttempts == 2
\* order amounts are 0..MaxAmount satoshis
MaxAmount == 2
\* the width, in bits, of the model's integers (the code's are 64 bits wide)
IntBits == 5

(* Program constants *)

\* the replay window of run, in seconds
ReplayWindow == 10
\* the clock's value at start (any value above the window)
Now0 == 100

-----------------------------------------------------------------------------
(* Keys *)

Admin    == "admin"     \* ADMIN_KEY, the operator
Node     == "node"      \* NODE_KEY, my_keys.public_key()
Seller   == "seller"
Buyer    == "buyer"
Solver   == "solver"    \* the solver who took the dispute
Solver2  == "solver2"   \* another solver
TradeKey == "tradekey"  \* a rotated trade key of a trading identity
Empty    == ""          \* the unset pubkey add_order stores

None == <<>>
Some(x) == <<x>>
IsSome(o) == o /= <<>>
Get(o) == o[1]


-----------------------------------------------------------------------------
(* Events.  An event is what one relay notification carries, described by  *)
(* what each check of the pipeline will find in it.                        *)

TradeActions == {"NewOrder", "TakeBuy", "TakeSell"}

\* the identities that send trade-creating messages
TradeSenders == {Buyer}

Indices == 1..MaxIndex

\* created_at values around the replay window of the first clock values:
\* always stale, stale after one tick, fresh, and in the future
StaleAt  == Now0 - ReplayWindow - 1
EdgeAt   == Now0 - ReplayWindow
FreshAt  == Now0 + MaxTicks
FutureAt == Now0 + MaxTicks + ReplayWindow + 1

Msg(a, s, r, i, p) ==
    [action |-> a, sender |-> s, rumor_pubkey |-> r, trade_index |-> i,
     payload |-> p]

\* trade-creating messages: the trade key (rumor author) is the identity
\* key or a rotated key; the index is absent or 1..MaxIndex
TradeMsgs ==
    { Msg(a, s, r, i, None) :
        a \in TradeActions, s \in TradeSenders, r \in {Buyer, TradeKey},
        i \in {None} \cup {Some(n) : n \in Indices} }

ReleaseMsgs == { Msg("Release", k, k, None, None) : k \in {Seller, Buyer, Admin} }

AdminSettleMsgs ==
    { Msg("AdminSettle", k, k, None, None) : k \in {Admin, Solver, Solver2} }

AdminCancelMsgs ==
    { Msg("AdminCancel", k, k, None, None) : k \in {Admin, Node, Buyer} }

AdminAddSolverMsgs ==
    { Msg("AdminAddSolver", k, k, None, p) :
        k \in {Admin, Node, Buyer}, p \in {None, Some(Solver2)} }

\* PayInvoice is in the Action enum with no handler; Orders stands for the
\* actions outside the dispatch table
OtherMsgs == { Msg(a, Buyer, Buyer, None, None) : a \in {"PayInvoice", "Orders"} }

HandlerMsgs ==
    ReleaseMsgs \cup AdminSettleMsgs \cup AdminCancelMsgs \cup AdminAddSolverMsgs

Msgs == TradeMsgs \cup HandlerMsgs \cup OtherMsgs

\* messages that change state when they get through, used for the events
\* that the pipeline is to stop
ProbeMsgs ==
    { Msg("TakeSell", Buyer, Buyer, Some(MaxIndex), None),
      Msg("Release", Seller, Seller, None, None),
      Msg("AdminCancel", Node, Node, None, None),
      Msg("AdminAddSolver", Node, Node, None, Some(Solver2)) }

\* what is wrong with an event, if anything
Defects == {"pow", "kind", "outer_sig", "unwrap", "malformed", "inner_sig",
            "author", "invalid"}

\* the class of external call that fails while the event is handled
\* ("db": the order lookup, "dispute": the dispute row's update, "event":
\* update_order_event, "ln": the hold invoice call, "dm": send_dm, "pay":
\* send_payment, "lnurl": resolv_ln_address of a buyer's Lightning address)
Faults == {"ln", "db", "dispute", "event", "dm", "pay", "lnurl"}

Event(m, defect, at, fault) ==
    [ pow          |-> defect /= "pow",         \* event.check_pow(pow)
      kind         |-> IF defect = "kind" THEN "TextNote" ELSE "GiftWrap",
      outer_sig    |-> defect /= "outer_sig",   \* event.verify().is_ok()
      unwrap       |-> defect /= "unwrap",      \* unwrap_gift_wrap is Ok
      created_at   |-> at,                      \* rumor.created_at
      wellformed   |-> defect /= "malformed",   \* content parses
      sender       |-> m.sender,                \* the key that signed the seal
      rumor_pubkey |-> m.rumor_pubkey,          \* the rumor's author
      \* the trade key the message content names for itself: the rumor's
      \* author, unless the rumor was authored by somebody else's key
      trade_key    |-> IF defect = "author" THEN TradeKey ELSE m.rumor_pubkey,
      \* the key that made the inner signature over the message
      signer       |-> IF defect = "inner_sig" THEN Solver2 ELSE m.rumor_pubkey,
      action       |-> m.action,
      trade_index  |-> m.trade_index,
      payload      |-> m.payload,
      valid        |-> defect /= "invalid",     \* MessageKind::verify()
      fault        |-> fault ]

Events ==
    { Event(m, "none", FreshAt, "none") : m \in Msgs }
    \cup { Event(m, "none", FreshAt, f) : m \in HandlerMsgs, f \in Faults }
    \cup { Event(m, d, FreshAt, "none") : m \in ProbeMsgs, d \in Defects }
    \cup { Event(m, "none", at, "none") :
             m \in ProbeMsgs, at \in {StaleAt, EdgeAt, FutureAt} }

-----------------------------------------------------------------------------
(* The store: the order, its dispute, the users; and the hold invoice *)

Statuses ==
    {"Pending", "WaitingPayment", "WaitingBuyerInvoice", "Active", "FiatSent",
     "Success", "Dispute", "SettledHoldInvoice", "CompletedByAdmin",
     "CanceledByAdmin", "Canceled", "CooperativelyCanceled", "Expired"}

TerminalStatuses ==
    {"Success", "Canceled", "CanceledByAdmin", "CompletedByAdmin",
     "CooperativelyCanceled", "Expired"}

\* hold: "none" (no invoice yet), "open" (created, not paid), "accepted"
\* (paid by the seller and held), "settled", "canceled"

OrderRow(st, kind, seller, buyer, hash, invoice) ==
    [ status |-> st, kind |-> kind, seller_pubkey |-> seller,
      buyer_pubkey |-> buyer, hash |-> hash, buyer_invoice |-> invoice,
      failed_payment |-> FALSE, payment_attempts |-> 0,
      amount |-> MaxAmount, fee |-> 1 ]

\* the order with another amount and fee
Priced(o, amount, fee) == [o EXCEPT !.amount = amount, !.fee = fee]

\* add_order: the creator's key goes to the buyer column of a Buy order and
\* to the seller column of a Sell order; the other column gets ""
add_order(kind, initiator_pubkey) ==
    OrderRow("Pending", kind,
             Some(IF kind = "Buy" THEN Empty ELSE initiator_pubkey),
             Some(IF kind = "Buy" THEN initiator_pubkey ELSE Empty),
             FALSE, FALSE)

Taken(st, hash, invoice) ==
    OrderRow(st, "Sell", Some(Seller), Some(Buyer), hash, invoice)

DisputeRow(st, solver) == [status |-> st, solver_pubkey |-> solver]

\* The store the coordinator starts with: the order as the trade so far
\* (or an earlier run of the coordinator) left it, with the matching
\* dispute row and hold invoice.
InitStores ==
    { [order |-> add_order("Sell", Seller), dispute |-> None, hold |-> "none"],
      [order |-> add_order("Buy", Buyer), dispute |-> None, hold |-> "none"],
      [order |-> Taken("WaitingBuyerInvoice", FALSE, FALSE),
       dispute |-> None, hold |-> "none"],
      [order |-> Taken("WaitingPayment", TRUE, TRUE),
       dispute |-> None, hold |-> "open"],
      [order |-> Taken("Active", TRUE, TRUE),
       dispute |-> None, hold |-> "accepted"],
      [order |-> Priced(Taken("Active", TRUE, TRUE), 0, 0),
       dispute |-> None, hold |-> "accepted"],
      [order |-> Priced(Taken("Active", TRUE, TRUE), MaxAmount, MaxAmount),
       dispute |-> None, hold |-> "accepted"],
      [order |-> Taken("FiatSent", TRUE, TRUE),
       dispute |-> None, hold |-> "accepted"],
      [order |-> Taken("Dispute", TRUE, TRUE),
       dispute |-> Some(DisputeRow("Initiated", None)), hold |-> "accepted"],
      [order |-> Taken("Dispute", TRUE, TRUE),
       dispute |-> Some(DisputeRow("InProgress", Some(Solver))),
       hold |-> "accepted"],
      [order |-> Taken("Canceled", TRUE, TRUE),
       dispute |-> None, hold |-> "canceled"],
      [order |-> Taken("CooperativelyCanceled", TRUE, TRUE),
       dispute |-> None, hold |-> "canceled"],
      [order |-> Taken("CooperativelyCanceled", TRUE, TRUE),
       dispute |-> Some(DisputeRow("InProgress", Some(Solver))),
       hold |-> "canceled"],
      [order |-> Taken("Expired", FALSE, FALSE),
       dispute |-> None, hold |-> "none"],
      [order |-> Taken("CompletedByAdmin", TRUE, TRUE),
       dispute |-> Some(DisputeRow("Settled", Some(Solver))),
       hold |-> "settled"] }

\* edit_order: the row of a taken order; of the two key columns the
\* statement sets buyer_pubkey only
edit_order(o, status, buyer_pubkey, buyer_invoice, hash) ==
    [o EXCEPT !.buyer_pubkey = Some(buyer_pubkey), !.status = status,
              !.buyer_invoice = buyer_invoice, !.hash = hash]

UserRow(index, solver) == [trade_index |-> index, is_solver |-> solver]

UserKeys == TradeSenders \cup {Solver, Solver2}

\* what an iteration reports: how far the event got, whether a handler was
\* invoked and how it ended, the messages sent, the Lightning calls made
Quiet(stage, action) ==
    [ stage |-> stage, action |-> action, handler |-> FALSE, res |-> "none",
      cause |-> "none", index |-> "none", msgs |-> {}, settle |-> FALSE, cancel |-> FALSE,
      payout |-> FALSE, paid |-> None, underflow |-> FALSE ]

Init ==
    /\ now = Now0
    /\ running = "running"
    /\ inbox = None
    /\ users = [k \in UserKeys |->
                   IF k = Solver THEN Some(UserRow(0, TRUE)) ELSE None]
    /\ \E s \in InitStores :
          /\ order = s.order
          /\ dispute = s.dispute
          /\ hold = s.hold
    /\ tasks = {}
    /\ accepted = [k \in TradeSenders |-> None]
    /\ out = Quiet("idle", "none")

-----------------------------------------------------------------------------
(* The world a loop iteration works on, and what the helpers do to it *)

World ==
    [ running |-> running, users |-> users, order |-> order,
      dispute |-> dispute, hold |-> hold, tasks |-> tasks,
      accepted |-> accepted, out |-> out ]

Say(w, to, action, reason) ==
    [w EXCEPT !.out.msgs = @ \cup {[to |-> to, action |-> action,
                                    reason |-> reason]}]

Ended(w, res) == [w EXCEPT !.out.res = res]

\* a handler's Err(MostroCantDo(cause))
Rejected(w, cause) == [w EXCEPT !.out.res = "err", !.out.cause = cause]

Failed(w) == w.out.res \in {"err", "panic"}

Panicked(w) == [w EXCEPT !.running = "panicked", !.out.res = "panic"]

\* PublicKey::from_str / from_bech32 of a stored key column
ValidKey(k) == IsSome(k) /\ Get(k) /= Empty

\* MessageKind::verify_signature(pubkey, sig): the signature is good for the
\* key that made it and for no other
verify_signature(e, pubkey) == e.signer = pubkey

\* settle_seller_hold_invoice: settles the held invoice at the node; an
\* invoice that is not held, or a failing node, is an error
settle_seller_hold_invoice(e, w) ==
    LET w1 == [w EXCEPT !.out.settle = TRUE] IN
    IF e.fault = "ln" \/ w.hold /= "accepted"
    THEN Ended(w1, "err")
    ELSE [w1 EXCEPT !.hold = "settled"]

\* update_order_event: republishes the order's event and commits the new
\* status of the order
update_order_event(e, w, status) ==
    IF e.fault = "event"
    THEN Ended(w, "err")
    ELSE [w EXCEPT !.order.status = status]

\* ln_client.cancel_hold_invoice(hash)
cancel_hold_invoice(e, w) ==
    LET w1 == [w EXCEPT !.out.cancel = TRUE] IN
    IF e.fault = "ln" \/ w.hold \notin {"open", "accepted"}
    THEN Ended(w1, "err")
    ELSE [w1 EXCEPT !.hold = "canceled"]

\* send_dm(...)?: the message is sent, or the call fails
send_dm(e, w, to, action, reason) ==
    IF e.fault = "dm" THEN Ended(w, "err") ELSE Say(w, to, action, reason)

-----------------------------------------------------------------------------
(* release.rs *)

\* the counting that forgets to raise the flag of a failed payout
failure_counters_Unflagged(o) ==
    IF o.payment_attempts < MaxAttempts
    THEN [o EXCEPT !.payment_attempts = @ + 1]
    ELSE o

\* the counters check_failure_retries leaves on the order
failure_counters(o) ==
    IF ~o.failed_payment
    THEN [o EXCEPT !.failed_payment = TRUE, !.payment_attempts = 0]
    ELSE IF o.payment_attempts < MaxAttempts
         THEN [o EXCEPT !.payment_attempts = @ + 1]
         ELSE o

\* check_failure_retries(order): marks the snapshot, tells the buyer and
\* writes the whole snapshot back to the store
check_failure_retries(o, fault, w) ==
    IF ~ValidKey(o.buyer_pubkey)
    THEN Ended(w, "panic")
    ELSE LET w1 == Say(w, Get(o.buyer_pubkey), "CantDo", "PaymentFailed") IN
         IF fault = "db"
         THEN Ended(w1, "err")
         ELSE [w1 EXCEPT !.order = failure_counters(o)]

\* the status gate that forgets the order was already released
ReleaseStatusOk_Replayable(status) ==
    status \in {"Active", "FiatSent", "Dispute", "SettledHoldInvoice"}

\* the statuses release_action accepts
ReleaseStatusOk(status) == status \in {"Active", "FiatSent", "Dispute"}

\* the gate that lets either party of the order release
IsSellerOf_OrBuyer(e, o) ==
    e.rumor_pubkey \in {Get(o.seller_pubkey), Get(o.buyer_pubkey)}

\* the sender of a Release is the seller recorded on the order
IsSellerOf(e, o) == e.rumor_pubkey = Get(o.seller_pubkey)

\* x as u64, y as i64: the casts reinterpret the bits
Wrap == 2 ^ IntBits
as_u64(x) == x % Wrap
as_i64(u) == IF u >= Wrap \div 2 THEN u - Wrap ELSE u

\* order.amount as u64 - order.fee as u64 has no value: a build with
\* overflow checks panics on it, one without wraps around
Underflows(o) == as_u64(o.amount) < as_u64(o.fee)

\* the payout that adds the fee instead of taking it off
payout_amount_FeeAdded(o) ==
    as_i64((as_u64(o.amount) + as_u64(o.fee)) % Wrap)

\* the amount do_payment hands to send_payment: amount as i64, where
\* amount = order.amount as u64 - order.fee as u64
payout_amount(o) ==
    as_i64((as_u64(o.amount) - as_u64(o.fee)) % Wrap)

\* do_payment(order): sends the payment and spawns the task that follows it
do_payment(e, w, o) ==
    IF ~o.buyer_invoice
    THEN Ended(w, "err")
    ELSE IF e.fault = "lnurl"
    THEN Ended([w EXCEPT !.out.underflow = Underflows(o)], "err")
    ELSE LET w1 == [w EXCEPT !.out.payout = TRUE,
                             !.out.paid = Some(payout_amount(o)),
                             !.out.underflow = Underflows(o)]
             w2 == IF e.fault = "pay"
                   THEN check_failure_retries(o, e.fault, w1)
                   ELSE w1
         IN  IF w2.out.res = "panic"
             THEN Panicked(w2)
             ELSE IF ~ValidKey(o.seller_pubkey) \/ ~ValidKey(o.buyer_pubkey)
             THEN Ended(w2, "err")
             ELSE IF e.fault = "pay"
             THEN Ended(w2, "ok")
             ELSE Ended([w2 EXCEPT !.tasks = @ \cup {o}], "ok")

\* the release that commits the new status before it settles the invoice
release_action_CommitFirst(e, w) ==
    LET o == w.order IN
    IF e.fault = "db"
    THEN Ended(w, "err")
    ELSE IF ~IsSome(o.seller_pubkey)
    THEN Ended(w, "ok")
    ELSE IF ~ReleaseStatusOk(o.status)
    THEN Ended(Say(w, e.rumor_pubkey, "CantDo", "none"), "ok")
    ELSE IF ~IsSellerOf(e, o)
    THEN Ended(Say(w, e.rumor_pubkey, "CantDo", "NotAllowedToRelease"), "ok")
    ELSE
    LET w1 == update_order_event(e, w, "SettledHoldInvoice") IN
    IF Failed(w1) THEN w1 ELSE
    LET w2 == settle_seller_hold_invoice(e, w1) IN
    IF Failed(w2) THEN w2 ELSE
    LET order_updated == [o EXCEPT !.status = "SettledHoldInvoice"]
        w3 == Say(w2, e.rumor_pubkey, "HoldInvoicePaymentSettled", "none")
    IN
    IF ~ValidKey(o.buyer_pubkey) THEN Ended(w3, "err") ELSE
    LET w4 == Say(w3, Get(o.buyer_pubkey), "Released", "none")
        w5 == do_payment(e, w4, order_updated)
    IN  IF w5.out.res = "panic" THEN w5 ELSE Ended(w5, "ok")

release_action(e, w) ==
    LET o == w.order IN
    IF e.fault = "db"
    THEN Ended(w, "err")
    ELSE IF ~IsSome(o.seller_pubkey)
    THEN Ended(w, "ok")
    ELSE IF ~ReleaseStatusOk(o.status)
    THEN Ended(Say(w, e.rumor_pubkey, "CantDo", "none"), "ok")
    ELSE IF ~IsSellerOf(e, o)
    THEN Ended(Say(w, e.rumor_pubkey, "CantDo", "NotAllowedToRelease"), "ok")
    ELSE
    LET w1 == settle_seller_hold_invoice(e, w) IN
    IF Failed(w1) THEN w1 ELSE
    LET w2 == update_order_event(e, w1, "SettledHoldInvoice") IN
    IF Failed(w2) THEN w2 ELSE
    LET order_updated == [o EXCEPT !.status = "SettledHoldInvoice"]
        w3 == Say(w2, e.rumor_pubkey, "HoldInvoicePaymentSettled", "none")
    IN
    IF ~ValidKey(o.buyer_pubkey) THEN Ended(w3, "err") ELSE
    LET w4 == Say(w3, Get(o.buyer_pubkey), "Released", "none")
        w5 == do_payment(e, w4, order_updated)
    IN  IF w5.out.res = "panic" THEN w5 ELSE Ended(w5, "ok")

\* the orders the retry job picks up: payout failed, hold invoice settled,
\* attempts left
RetryDue(o) ==
    /\ o.failed_payment
    /\ o.status = "SettledHoldInvoice"
    /\ o.payment_attempts < MaxAttempts

\* payment_success(order): tells the buyer, then writes the snapshot back
\* with status Success
payment_success(o, e, w) ==
    LET w1 == Say(w, Get(o.buyer_pubkey), "PurchaseCompleted", "none")
        w2 == update_order_event(e, w1, "Success")
    IN  IF Failed(w2) THEN w2
        ELSE IF e.fault = "db" THEN Ended(w2, "err")
        ELSE Ended([w2 EXCEPT !.order = [o EXCEPT !.status = "Success"]], "ok")

-----------------------------------------------------------------------------
(* admin_settle.rs *)

\* is_assigned_solver(pool, pubkey, order_id): a dispute row of the order
\* names this key as its solver
is_assigned_solver(w, pubkey) ==
    IsSome(w.dispute) /\ Get(w.dispute).solver_pubkey = Some(pubkey)

\* Order::check_status(status) is Ok
check_status(o, status) == o.status = status

admin_settle_action(e, w) ==
    LET o == w.order IN
    IF e.fault = "db"
    THEN Rejected(w, "DbAccessError")
    ELSE IF ~is_assigned_solver(w, e.rumor_pubkey)
    THEN Rejected(w, "IsNotYourDispute")
    ELSE IF ~check_status(o, "CooperativelyCanceled")
    THEN Rejected(w, "IsNotYourDispute")
    ELSE
    LET w0 == Say(w, e.rumor_pubkey, "CooperativeCancelAccepted", "none") IN
    IF ~check_status(o, "Dispute")
    THEN Rejected(w0, "InvalidOrderStatus")
    ELSE
    LET w1 == settle_seller_hold_invoice(e, w0) IN
    IF Failed(w1) THEN w1 ELSE
    LET w2 == update_order_event(e, w1, "SettledHoldInvoice") IN
    IF Failed(w2) THEN w2 ELSE
    LET order_updated == [o EXCEPT !.status = "SettledHoldInvoice"] IN
    IF IsSome(w2.dispute) /\ e.fault = "dispute" THEN Ended(w2, "err") ELSE
    LET w3 == IF IsSome(w2.dispute)
              THEN [w2 EXCEPT !.dispute = Some([Get(@) EXCEPT
                                                  !.status = "Settled"])]
              ELSE w2
        w4 == send_dm(e, w3, e.rumor_pubkey, "AdminSettled", "none")
    IN
    IF Failed(w4) THEN w4 ELSE
    IF IsSome(o.seller_pubkey) /\ ~ValidKey(o.seller_pubkey)
    THEN Ended(w4, "err") ELSE
    LET w5 == IF IsSome(o.seller_pubkey)
              THEN Say(w4, Get(o.seller_pubkey), "AdminSettled", "none")
              ELSE w4
    IN
    IF IsSome(o.buyer_pubkey) /\ ~ValidKey(o.buyer_pubkey)
    THEN Ended(w5, "err") ELSE
    LET w6 == IF IsSome(o.buyer_pubkey)
              THEN Say(w5, Get(o.buyer_pubkey), "AdminSettled", "none")
              ELSE w5
        w7 == do_payment(e, w6, order_updated)
    IN  IF w7.out.res = "panic" THEN w7 ELSE Ended(w7, "ok")

-----------------------------------------------------------------------------
(* admin_cancel.rs, admin_add_solver.rs *)

\* the key the admin handlers compare the sender with: my_keys.public_key()
mostro_pubkey == Node

admin_cancel_action(e, w) ==
    LET o == w.order IN
    IF e.fault = "db"
    THEN Ended(w, "err")
    ELSE IF e.rumor_pubkey /= mostro_pubkey
    THEN LET r == send_dm(e, w, e.rumor_pubkey, "CantDo", "none") IN
         IF Failed(r) THEN r ELSE Ended(r, "ok")
    ELSE
    LET w1 == IF o.hash THEN cancel_hold_invoice(e, w) ELSE w IN
    IF Failed(w1) THEN w1 ELSE
    IF IsSome(w1.dispute) /\ e.fault = "dispute" THEN Ended(w1, "err") ELSE
    LET w2 == IF IsSome(w1.dispute)
              THEN [w1 EXCEPT !.dispute = Some([Get(@) EXCEPT
                                                  !.status = "SellerRefunded"])]
              ELSE w1
        w3 == update_order_event(e, w2, "CanceledByAdmin")
    IN
    IF Failed(w3) THEN w3 ELSE
    LET w4 == send_dm(e, w3, e.rumor_pubkey, "AdminCancel", "none") IN
    IF Failed(w4) THEN w4 ELSE
    IF ~ValidKey(o.seller_pubkey) THEN Panicked(w4) ELSE
    LET w5 == Say(w4, Get(o.seller_pubkey), "AdminCancel", "none") IN
    IF ~ValidKey(o.buyer_pubkey) THEN Panicked(w5) ELSE
    Ended(Say(w5, Get(o.buyer_pubkey), "AdminCancel", "none"), "ok")

admin_add_solver_action(e, w) ==
    IF ~IsSome(e.payload)
    THEN Ended(w, "ok")
    ELSE IF e.sender /= mostro_pubkey
    THEN Ended(Say(w, e.rumor_pubkey, "CantDo", "none"), "ok")
    ELSE
    LET npub == Get(e.payload)
        index == IF IsSome(e.trade_index) THEN Get(e.trade_index) ELSE 0
        w1 == IF ~IsSome(w.users[npub]) /\ e.fault /= "db"
              THEN [w EXCEPT !.users[npub] = Some(UserRow(index, TRUE))]
              ELSE w
        w2 == send_dm(e, w1, e.sender, "AdminAddSolver", "none")
    IN  IF Failed(w2) THEN w2 ELSE Ended(w2, "ok")

-----------------------------------------------------------------------------
(* app.rs *)

\* is_user_present(pool, pubkey): the user's row, or Err
is_user_present(e, w, pubkey) ==
    IF e.fault = "db" THEN None ELSE w.users[pubkey]

\* the test check_trade_index makes before it stores a new index
IndexAccepted(e, user, index) ==
    index > user.trade_index /\ verify_signature(e, e.sender)

\* check_trade_index(pool, event, msg)
check_trade_index(e, w) ==
    IF e.action \notin TradeActions \/ ~IsSome(e.trade_index)
    THEN w
    ELSE
    LET index == Get(e.trade_index)
        found == is_user_present(e, w, e.sender)
    IN
    IF IsSome(found)
    THEN IF IndexAccepted(e, Get(found), index)
         THEN [w EXCEPT !.users[e.sender] =
                            Some([Get(found) EXCEPT !.trade_index = index]),
                        !.out.index = "updated"]
         ELSE [Say(w, e.sender, "CantDo", "InvalidTradeIndex")
                 EXCEPT !.out.index = "rejected"]
    ELSE IF e.fault = "db"
         THEN w
         ELSE [w EXCEPT !.users[e.sender] = Some(UserRow(index, FALSE)),
                        !.out.index = "created"]

\* a handler whose file is not part of the model: it is invoked, and what
\* it does to the store is left out
invoked(e, w) == Ended(w, "ok")

\* the actions handle_message_action has an arm for
Dispatched ==
    {"NewOrder", "TakeSell", "TakeBuy", "FiatSent", "Release", "AddInvoice",
     "PayInvoice", "Dispute", "RateUser", "Cancel", "AdminCancel",
     "AdminSettle", "AdminAddSolver", "AdminTakeDispute"}

handle_message_action(e, w) ==
    LET h == [w EXCEPT !.out.handler = TRUE] IN
    CASE e.action = "Release"        -> release_action(e, h)
      [] e.action = "PayInvoice"     -> Panicked(w)
      [] e.action = "AdminCancel"    -> admin_cancel_action(e, h)
      [] e.action = "AdminSettle"    -> admin_settle_action(e, h)
      [] e.action = "AdminAddSolver" -> admin_add_solver_action(e, h)
      [] e.action \in Dispatched \ {"Release", "PayInvoice", "AdminCancel",
                                    "AdminSettle", "AdminAddSolver"}
                                     -> invoked(e, h)
      [] OTHER                       -> Ended(w, "ok")

\* the replay check with the window one second too wide
TooOld_OffByOne(e, t) == e.created_at < t - ReplayWindow - 1

\* the replay check of run: the rumor is older than the window
TooOld(e, t) == e.created_at < t - ReplayWindow

\* the history of dispatched trade messages
Remember(e, w) ==
    IF w.out.handler /\ e.action \in TradeActions /\ IsSome(e.trade_index)
    THEN [w EXCEPT !.accepted[e.sender] = e.trade_index]
    ELSE w

\* one iteration of run's loop on the event e at time t
run(e, t, w0) ==
    LET w == [w0 EXCEPT !.out = Quiet("start", e.action)]
        At(stage) == [w EXCEPT !.out.stage = stage]
    IN
    IF ~e.pow THEN At("pow")
    ELSE IF e.kind /= "GiftWrap" THEN At("kind")
    ELSE IF ~e.unwrap THEN [At("unwrap") EXCEPT !.running = "returned"]
    ELSE IF TooOld(e, t) THEN At("stale")
    ELSE IF ~e.wellformed THEN Panicked(At("malformed"))
    ELSE IF ~verify_signature(e, e.rumor_pubkey) THEN At("inner_sig")
    ELSE
    LET w1 == check_trade_index(e, At("checked")) IN
    IF ~e.valid
    THEN [w1 EXCEPT !.out.stage = "invalid"]
    ELSE Remember(e, handle_message_action(e,
                         [w1 EXCEPT !.out.stage = "dispatched"]))

-----------------------------------------------------------------------------
(* Actions *)

Commit(w) ==
    /\ running' = w.running
    /\ users' = w.users
    /\ order' = w.order
    /\ dispute' = w.dispute
    /\ hold' = w.hold
    /\ tasks' = w.tasks
    /\ accepted' = w.accepted
    /\ out' = w.out

\* nothing is being handled: the loop waits in notifications.recv()
Idle == inbox = None /\ out.stage = "idle"

\* the clock advances
Tick ==
    /\ Idle
    /\ now < Now0 + MaxTicks
    /\ now' = now + 1
    /\ UNCHANGED <<running, inbox, users, order, dispute, hold, tasks,
                   accepted, out>>

\* notifications.recv() yields an event
Recv ==
    /\ running = "running"
    /\ Idle
    /\ \E e \in Events : inbox' = Some(e)
    /\ UNCHANGED <<now, running, users, order, dispute, hold, tasks,
                   accepted, out>>

\* the loop body handles the event
Process ==
    /\ running = "running"
    /\ IsSome(inbox)
    /\ out.stage = "idle"
    /\ Commit(run(Get(inbox), now, World))
    /\ UNCHANGED <<now, inbox>>

\* the iteration (or the task's step) is over: the loop is back in recv()
Continue ==
    /\ out.stage /= "idle"
    /\ inbox' = None
    /\ out' = Quiet("idle", "none")
    /\ UNCHANGED <<now, running, users, order, dispute, hold, tasks,
                   accepted>>

TaskWorld(o) == [World EXCEPT !.out = Quiet("task", "payment"),
                              !.tasks = @ \ {o}]

\* a payout task receives PaymentStatus::Succeeded
PaymentSucceeded ==
    /\ running /= "panicked"
    /\ Idle
    /\ \E o \in tasks, f \in {"none", "event", "db"} :
          Commit([payment_success(o, [fault |-> f], TaskWorld(o))
                    EXCEPT !.out.cause = "Succeeded"])
    /\ UNCHANGED <<now, inbox>>

\* a payout task receives PaymentStatus::Failed
PaymentFailed ==
    /\ running /= "panicked"
    /\ Idle
    /\ \E o \in tasks, f \in {"none", "db"} :
          Commit([check_failure_retries(o, f, TaskWorld(o))
                    EXCEPT !.out.cause = "Failed"])
    /\ UNCHANGED <<now, inbox>>

\* the retry job pays the buyer of a failed payout again, from the row in
\* the store; it does not know of the payout tasks still in flight
RetryPayout ==
    /\ running = "running"
    /\ Idle
    /\ RetryDue(order)
    /\ \E f \in {"none", "pay"} :
          Commit(do_payment([fault |-> f],
                            [World EXCEPT !.out = Quiet("retry", "payment")],
                            order))
    /\ UNCHANGED <<now, inbox>>

\* a Take action assigns the counterpart of a pending order through
\* edit_order; the key it passes is the taker's or, for want of a seller
\* column in the statement, the one the row already has
Take ==
    /\ running = "running"
    /\ Idle
    /\ order.status = "Pending"
    /\ \E k \in IF order.kind = "Sell"
                THEN {Buyer}
                ELSE {Seller, Get(order.buyer_pubkey)} :
          order' = edit_order(order, "WaitingPayment", k, TRUE, TRUE)
    /\ hold' = "open"
    /\ out' = Quiet("take", IF order.kind = "Sell" THEN "TakeSell"
                                                   ELSE "TakeBuy")
    /\ UNCHANGED <<now, running, inbox, users, dispute, tasks, accepted>>

Next ==
    \/ Tick \/ Recv \/ Process \/ Continue
    \/ PaymentSucceeded \/ PaymentFailed \/ RetryPayout \/ Take

Spec == Init /\ [][Next]_vars

-----------------------------------------------------------------------------
(* Vocabulary of the properties *)

\* the step in which the loop body handles the event in the inbox
Handling == IsSome(inbox) /\ out.stage = "idle" /\ out'.stage /= "idle"

\* the event in the inbox
Ev == Get(inbox)

\* the loop body has just handled the event in the inbox
Handled == IsSome(inbox) /\ out.stage /= "idle"

\* the event passed every check of the pipeline and reached the registry
ReachedRegistry(o) == o.stage \in {"invalid", "dispatched"}

\* the store, the hold invoice and the payout tasks are as they were
StoreUntouched == UNCHANGED <<users, order, dispute, hold, tasks>>

SentTo(o, to, action) == \E m \in o.msgs : m.to = to /\ m.action = action

SentReason(o, to, action, reason) ==
    [to |-> to, action |-> action, reason |-> reason] \in o.msgs

\* a trade-creating message with an index, from an identity that has a row
IndexedTrade(e) == e.action \in TradeActions /\ IsSome(e.trade_index)

-----------------------------------------------------------------------------
(* C1: for every identity the trade indices of the dispatched trade-creating *)
(* messages are strictly increasing, the stored trade_index never decreases, *)
(* and a message whose index is not above the stored index is never          *)
(* dispatched to its handler.                                                *)
C1_AcceptedIndicesIncrease ==
    [][ (Handling /\ IndexedTrade(Ev) /\ ReachedRegistry(out'))
        => LET k == Ev.sender
               n == Get(Ev.trade_index)
           IN  /\ out'.handler =>
                     (~IsSome(accepted[k]) \/ n > Get(accepted[k]))
               /\ IsSome(users[k]) =>
                     /\ IsSome(users'[k])
                     /\ Get(users'[k]).trade_index >= Get(users[k]).trade_index
                     /\ (n <= Get(users[k]).trade_index => ~out'.handler)
      ]_vars

(* C2: an existing user's trade-creating message whose index is not above   *)
(* the stored one is answered with CantDo(InvalidTradeIndex) and is not     *)
(* dispatched: no handler runs and the store stays as the earlier messages  *)
(* left it.                                                                 *)
C2_RejectedIndexNotDispatched ==
    [][ (/\ Handling /\ IndexedTrade(Ev) /\ ReachedRegistry(out')
         /\ IsSome(users[Ev.sender])
         /\ Get(Ev.trade_index) <= Get(users[Ev.sender]).trade_index)
        => /\ SentReason(out', Ev.sender, "CantDo", "InvalidTradeIndex")
           /\ ~out'.handler
           /\ StoreUntouched
      ]_vars

(* C3: for an existing user with stored index c, a trade-creating message   *)
(* with index n is accepted, and n stored, exactly when n > c and the inner *)
(* signature was made by the trade key of the message, whether or not that  *)
(* key is the sender's identity key.                                        *)
C3_AcceptedIffHigherAndSigned ==
    [][ (/\ Handling /\ IndexedTrade(Ev) /\ ReachedRegistry(out')
         /\ IsSome(users[Ev.sender]))
        => LET k == Ev.sender
               n == Get(Ev.trade_index)
               c == Get(users[k]).trade_index
           IN  (out'.index = "updated" /\ Get(users'[k]).trade_index = n)
                  <=> (n > c /\ Ev.signer = Ev.rumor_pubkey)
      ]_vars

(* C4: an unwrapped gift wrap whose rumor is more than ReplayWindow seconds  *)
(* older than the clock is dropped before the registry and the handlers:    *)
(* the store is untouched, nothing is sent, the loop keeps running; a rumor *)
(* dated in the future is not dropped by the replay check.                  *)
C4_StaleRumorDropped ==
    [][ (Handling /\ Ev.kind = "GiftWrap" /\ Ev.unwrap)
        => /\ Ev.created_at < now - ReplayWindow
                => /\ StoreUntouched
                   /\ UNCHANGED <<accepted, running>>
                   /\ out'.msgs = {}
                   /\ ~out'.handler
                   /\ out'.index = "none"
                   /\ ~ReachedRegistry(out')
           /\ Ev.created_at > now => out'.stage /= "stale"
      ]_vars

\* a message accepted when it was fresh is dropped when it comes again
\* after the window
C4_Witness ==
    /\ Handled
    /\ out.stage = "stale"
    /\ Ev.pow /\ Ev.created_at = EdgeAt /\ now = EdgeAt + ReplayWindow + 1
    /\ Ev.action = "TakeSell"
    /\ accepted[Ev.sender] = Ev.trade_index
    /\ users[Ev.sender] = Some(UserRow(Get(Ev.trade_index), FALSE))

(* C5: a Release changes the order, settles the hold invoice or starts a    *)
(* payout only when the key that authenticated it is the seller_pubkey of   *)
(* the order; a Release from another key, the buyer included, gets a CantDo *)
(* and leaves the order, the hold invoice and the payout as they were.      *)
C5_ReleaseOnlyBySeller ==
    [][ (Handling /\ Ev.action = "Release")
        => /\ (\/ order' /= order \/ hold' /= hold \/ tasks' /= tasks
               \/ out'.settle \/ out'.payout)
                => Ev.rumor_pubkey = Get(order.seller_pubkey)
           /\ (/\ out'.handler /\ Ev.fault /= "db"
               /\ Ev.rumor_pubkey /= Get(order.seller_pubkey))
                => /\ SentTo(out', Ev.rumor_pubkey, "CantDo")
                   /\ StoreUntouched
                   /\ ~out'.settle /\ ~out'.payout
      ]_vars

\* the buyer tried to release an order that the seller could have released
C5_Witness ==
    /\ Handled
    /\ Ev.action = "Release" /\ Ev.rumor_pubkey = Buyer
    /\ order.buyer_pubkey = Some(Buyer)
    /\ order.status \in {"Active", "FiatSent", "Dispute"}
    /\ hold = "accepted"
    /\ SentReason(out, Buyer, "CantDo", "NotAllowedToRelease")

(* C6: a Release is accepted only in Active, FiatSent or Dispute; in every  *)
(* other status, the terminal ones and SettledHoldInvoice included, the     *)
(* handler refuses: no settle call, no change of the order, no payout.      *)
C6_ReleaseOnlyFromOpenTrade ==
    [][ (/\ Handling /\ Ev.action = "Release"
         /\ order.status \notin {"Active", "FiatSent", "Dispute"})
        => /\ StoreUntouched
           /\ ~out'.settle /\ ~out'.payout
           /\ (out'.handler /\ Ev.fault /= "db")
                => SentTo(out', Ev.rumor_pubkey, "CantDo")
      ]_vars

\* the seller's Release comes a second time, the payout still in flight
C6_Witness ==
    /\ Handled
    /\ Ev.action = "Release" /\ Ev.rumor_pubkey = Seller
    /\ order.status = "SettledHoldInvoice"
    /\ hold = "settled"
    /\ tasks /= {}
    /\ SentTo(out, Seller, "CantDo")

\* an AdminSettle that passed the pipeline with no failing external call
CleanAdminSettle ==
    /\ Handling /\ Ev.action = "AdminSettle"
    /\ out'.stage = "dispatched" /\ Ev.fault = "none"

\* what an accepted AdminSettle does
Settles ==
    /\ out'.settle /\ hold' = "settled"
    /\ order'.status = "SettledHoldInvoice"
    /\ IsSome(dispute') /\ Get(dispute').status = "Settled"
    /\ out'.payout

(* C7: when the solver assigned to the dispute sends AdminSettle for an     *)
(* order in Dispute, the request is accepted: the hold invoice is settled,  *)
(* the order moves to SettledHoldInvoice, the dispute to Settled, and the   *)
(* buyer's payout is attempted.                                             *)
C7_AssignedSolverSettles ==
    [][ (/\ CleanAdminSettle
         /\ order.status = "Dispute" /\ hold = "accepted"
         /\ is_assigned_solver(World, Ev.rumor_pubkey))
        => Settles
      ]_vars

(* C8: AdminSettle has an effect only on an order in Dispute: in any other  *)
(* status no hold invoice is settled, neither the order nor the dispute     *)
(* changes, no payout starts and no CooperativeCancelAccepted or other      *)
(* success message is sent.                                                 *)
C8_AdminSettleOnlyInDispute ==
    [][ (/\ Handling /\ Ev.action = "AdminSettle" /\ Ev.fault = "none"
         /\ order.status /= "Dispute")
        => /\ StoreUntouched
           /\ ~out'.settle /\ ~out'.payout
           /\ \A m \in out'.msgs : m.action = "CantDo"
      ]_vars

(* C9: for an order in Dispute whose dispute is assigned to a solver,       *)
(* AdminSettle is accepted exactly when the sender is that solver or the    *)
(* administrator; another solver is rejected with IsNotYourDispute and      *)
(* changes nothing.                                                         *)
C9_SettleBySolverOrAdmin ==
    [][ (/\ CleanAdminSettle
         /\ order.status = "Dispute" /\ hold = "accepted"
         /\ IsSome(dispute) /\ IsSome(Get(dispute).solver_pubkey))
        => LET v == Get(Get(dispute).solver_pubkey) IN
           /\ Settles <=> Ev.rumor_pubkey \in {v, Admin}
           /\ Ev.rumor_pubkey \notin {v, Admin}
                => /\ out'.cause = "IsNotYourDispute"
                   /\ StoreUntouched
      ]_vars

(* C10: an AdminCancel or AdminAddSolver whose authenticated key is not     *)
(* ADMIN_KEY is rejected with CantDo and changes nothing; one authenticated *)
(* by ADMIN_KEY passes the gate.                                            *)
C10_AdminGate ==
    [][ (/\ Handling /\ Ev.action \in {"AdminCancel", "AdminAddSolver"}
         /\ out'.stage = "dispatched" /\ Ev.fault = "none"
         /\ Ev.action = "AdminAddSolver" => IsSome(Ev.payload))
        => IF Ev.rumor_pubkey = Admin
           THEN ~SentTo(out', Ev.rumor_pubkey, "CantDo")
           ELSE /\ SentTo(out', Ev.rumor_pubkey, "CantDo")
                /\ StoreUntouched
                /\ ~out'.cancel
      ]_vars

-----------------------------------------------------------------------------
(* Payout *)

\* a payout task has just handled the PaymentStatus it received
TaskStep(status) == out'.stage = "task" /\ out'.cause = status

\* the payout task's write of the failure counters went through
FailureRecorded == TaskStep("Failed") /\ out'.res = "none"

(* C11: every failed payout of an order in SettledHoldInvoice raises        *)
(* payment_attempts by one, counting from 0, and leaves the status alone:   *)
(* after the first failure payment_attempts is 1.                           *)
C11_FailureCountsFromOne ==
    [][ (/\ FailureRecorded
         /\ order.status = "SettledHoldInvoice"
         /\ order.payment_attempts < MaxAttempts)
        => /\ order'.status = "SettledHoldInvoice"
           /\ order'.payment_attempts = order.payment_attempts + 1
      ]_vars

(* C12: payment_attempts never exceeds MaxAttempts; a recorded payout       *)
(* failure leaves failed_payment set and the order in a non-terminal        *)
(* status, and the flag, once set, stays set.                               *)
C12_AttemptsBounded ==
    [][ /\ order'.payment_attempts <= MaxAttempts
        /\ order.failed_payment => order'.failed_payment
        /\ FailureRecorded
              => /\ order'.failed_payment
                 /\ order'.status \notin TerminalStatuses
      ]_vars

\* the payout failed until the counter reached its maximum
C12_Witness ==
    /\ out.stage = "task" /\ out.cause = "Failed" /\ out.res = "none"
    /\ order.failed_payment
    /\ order.payment_attempts = MaxAttempts
    /\ order.status = "SettledHoldInvoice"
    /\ ~RetryDue(order)

(* C13: when send_payment reports Succeeded for an order, the buyer gets    *)
(* PurchaseCompleted and the order becomes Success; PurchaseCompleted is    *)
(* not sent for an order that does not become Success.                      *)
C13_SucceededMeansSuccess ==
    [][ TaskStep("Succeeded")
        => /\ \E m \in out'.msgs : m.action = "PurchaseCompleted"
           /\ order'.status = "Success"
      ]_vars

-----------------------------------------------------------------------------
(* The loop and its failures *)

\* the event in the inbox is a gift wrap that passed the proof of work
GiftWrapped == Ev.pow /\ Ev.kind = "GiftWrap"

(* C14: no single event ends the loop: after a gift wrap that cannot be     *)
(* unwrapped, and after a handler that returned an error, the loop is still *)
(* running and takes the next notification.                                 *)
C14_LoopSurvivesEvent ==
    [][ (/\ Handling /\ GiftWrapped
         /\ ~Ev.unwrap \/ out'.res = "err")
        => running' = "running"
      ]_vars

(* C15: a rumor whose content is not a well-formed [Message, Signature] is  *)
(* dropped: nothing changes in the store and the coordinator keeps running. *)
C15_MalformedDropped ==
    [][ (/\ Handling /\ GiftWrapped /\ Ev.unwrap
         /\ ~TooOld(Ev, now) /\ ~Ev.wellformed)
        => /\ running' = "running"
           /\ StoreUntouched
           /\ ~out'.handler
      ]_vars

(* C16: an AdminCancel over a disputed order changes order and dispute      *)
(* together or not at all: afterwards the dispute is SellerRefunded exactly *)
(* when the order is CanceledByAdmin, and the order is CanceledByAdmin only *)
(* with its hold invoice cancelled.                                         *)
C16_AdminCancelAllOrNothing ==
    [][ (/\ Handling /\ Ev.action = "AdminCancel" /\ out'.handler
         /\ order.status = "Dispute" /\ IsSome(dispute))
        => /\ IsSome(dispute')
           /\ Get(dispute').status = "SellerRefunded"
                <=> order'.status = "CanceledByAdmin"
           /\ (order'.status = "CanceledByAdmin" /\ order.hash)
                => hold' = "canceled"
      ]_vars

-----------------------------------------------------------------------------
(* Writers of the order *)

(* C17: a payout task writes the order as a single writer would: what it    *)
(* commits is the row as it is in the store with the task's own change      *)
(* (Success, or the failure counters), so that nothing committed to the     *)
(* order since the payout started is overwritten.                           *)
C17_SingleWriter ==
    [][ out'.stage = "task"
        => order' \in {order, [order EXCEPT !.status = "Success"],
                       failure_counters(order)}
      ]_vars

(* C18: a pending order has exactly one of buyer_pubkey / seller_pubkey     *)
(* set, its creator's; once a Take has assigned the counterpart both are    *)
(* set, for Sell and Buy orders alike, and the creator's key is the one the *)
(* order was created with.                                                  *)
C18_CounterpartAssigned ==
    [][ /\ order.status = "Pending"
              => ValidKey(order.seller_pubkey) /= ValidKey(order.buyer_pubkey)
        /\ out'.stage = "take"
              => /\ ValidKey(order'.seller_pubkey)
                 /\ ValidKey(order'.buyer_pubkey)
                 /\ order.kind = "Sell"
                       => order'.seller_pubkey = order.seller_pubkey
                 /\ order.kind = "Buy"
                       => order'.buyer_pubkey = order.buyer_pubkey
      ]_vars

-----------------------------------------------------------------------------
(* Signatures *)

(* C19: a gift wrap whose outer signature does not verify is rejected for   *)
(* good: its message reaches neither the trade-index registry nor a         *)
(* handler, and nothing changes.                                            *)
C19_BadOuterSignatureRejected ==
    [][ (Handling /\ GiftWrapped /\ ~Ev.outer_sig)
        => /\ ~ReachedRegistry(out')
           /\ ~out'.handler
           /\ StoreUntouched
      ]_vars

(* C20: a message reaches the registry and a handler only if its inner      *)
(* signature was made by the trade key the message declares; one signed by  *)
(* another key, the rumor's author included, is dropped and changes nothing.*)
C20_InnerSignatureByTradeKey ==
    [][ (/\ Handling /\ GiftWrapped /\ Ev.unwrap
         /\ ~TooOld(Ev, now) /\ Ev.wellformed)
        => /\ ReachedRegistry(out') => Ev.signer = Ev.trade_key
           /\ Ev.signer /= Ev.trade_key
                => /\ StoreUntouched
                   /\ ~out'.handler
                   /\ out'.msgs = {}
      ]_vars

-----------------------------------------------------------------------------
(* The router and the admin handlers *)

(* C21: an authenticated message whose action has no entry in the dispatch  *)
(* table, PayInvoice for one, is ignored: no handler runs, nothing changes  *)
(* and the coordinator keeps running.                                       *)
C21_UnknownActionIgnored ==
    [][ (/\ Handling /\ out'.stage = "dispatched"
         /\ Ev.action \in {"PayInvoice", "Orders"})
        => /\ ~out'.handler
           /\ StoreUntouched
           /\ running' = "running"
      ]_vars

(* C22: an AdminCancel from the administrator on an order in a terminal     *)
(* status is rejected with NotAllowedByStatus: the order keeps its status,  *)
(* no hold invoice is cancelled and the dispute row is not modified.  The   *)
(* administrator is the key the handler's gate lets through.                *)
C22_AdminCancelRefusedWhenTerminal ==
    [][ (/\ Handling /\ Ev.action = "AdminCancel"
         /\ out'.stage = "dispatched" /\ Ev.fault = "none"
         /\ Ev.rumor_pubkey = mostro_pubkey
         /\ order.status \in TerminalStatuses)
        => /\ order' = order
           /\ dispute' = dispute
           /\ ~out'.cancel /\ hold' = hold
           /\ SentReason(out', Ev.rumor_pubkey, "CantDo", "NotAllowedByStatus")
      ]_vars

-----------------------------------------------------------------------------
(* Settle, commit, payout *)

\* the messages that tell of a settled hold invoice
SettleNotices == {"Released", "HoldInvoicePaymentSettled", "AdminSettled"}

(* C23: in Release and AdminSettle the order becomes SettledHoldInvoice     *)
(* only with its hold invoice settled; when the settle call fails the order *)
(* is as it was (Active, FiatSent or Dispute), no Released,                 *)
(* HoldInvoicePaymentSettled or AdminSettled message is sent and no payout  *)
(* starts.                                                                  *)
C23_SettleBeforeCommit ==
    [][ (Handling /\ Ev.action \in {"Release", "AdminSettle"})
        => /\ (/\ order'.status = "SettledHoldInvoice"
               /\ order.status /= "SettledHoldInvoice")
                => out'.settle /\ hold' = "settled"
           /\ (out'.settle /\ hold' /= "settled")
                => /\ order' = order
                   /\ order.status \in {"Active", "FiatSent", "Dispute"}
                   /\ \A m \in out'.msgs : m.action \notin SettleNotices
                   /\ ~out'.payout /\ tasks' = tasks
      ]_vars

\* the seller's Release found the Lightning node failing
C23_Witness ==
    /\ Handled
    /\ Ev.action = "Release" /\ Ev.rumor_pubkey = Seller /\ Ev.fault = "ln"
    /\ out.settle /\ out.res = "err"
    /\ hold = "accepted"
    /\ order.status \in {"Active", "FiatSent", "Dispute"}

(* C24: an order that a Release or an AdminSettle moves to                  *)
(* SettledHoldInvoice has its payout attempted (send_payment invoked), or   *)
(* is left for the retry job to pick up: it is not left in                  *)
(* SettledHoldInvoice with no attempt made and none to come.                *)
C24_SettledOrderGetsPayout ==
    [][ (/\ Handling /\ Ev.action \in {"Release", "AdminSettle"}
         /\ order.status /= "SettledHoldInvoice"
         /\ order'.status = "SettledHoldInvoice")
        => out'.payout \/ RetryDue(order')
      ]_vars

(* C25: settle and cancel exclude each other: once the hold invoice of an   *)
(* order is settled no action invokes cancel on it or moves the order to    *)
(* CanceledByAdmin; no order is CanceledByAdmin with a payout in flight,    *)
(* and none is Success with its hold invoice cancelled.                     *)
C25_SettleExcludesCancel ==
    [][ /\ (/\ Handling /\ hold = "settled"
            /\ order.status = "SettledHoldInvoice")
              => /\ ~out'.cancel
                 /\ order'.status = "CanceledByAdmin"
                       => order.status = "CanceledByAdmin"
        /\ order.status = "CanceledByAdmin" => tasks = {}
        /\ order.status = "Success" => hold /= "canceled"
      ]_vars

=============================================================================
